---- MODULE Spec2Model ----
(***************************************************************************)
(* The auto-sync scheduler of app/services/scheduler.py: the module-level   *)
(* state (scheduler_running, scheduler_thread, last_sync_time, sync_status),*)
(* the job schedule_jobs of the `schedule` library, the callers of                *)
(* start_auto_sync / stop_auto_sync and the background threads running      *)
(* run_scheduler.  Every step is one access to the shared state; a step's   *)
(* label is the source line it executes.                                    *)
(***************************************************************************)
EXTENDS Integers, Sequences, FiniteSets, TLC

VARIABLES
    serialized,         \* TRUE: the callers are the async endpoints of api.py, one at a time
    app,                \* "up", or "down" once shutdown_event has run and the process ends
    scheduler_running,  \* scheduler.py:16
    scheduler_thread,   \* scheduler.py:17, 0 is None
    last_sync_time,     \* scheduler.py:18, -1 is None
    sync_status,        \* scheduler.py:19
    schedule_jobs,      \* schedule.jobs, the registered jobs (job k is the one Start k registers)
    spc,                \* position of each start_auto_sync call
    interval,           \* interval_minutes of each Start request
    res,                \* first_sync of each Start's result
    wdf,                \* df of each Start's warm-up: the rows fetched, -1 before the fetch returns
    warm,               \* the phase each Start's warm-up ended with, until the result is built
    thr,                \* position of each run_scheduler thread
    tq,                 \* the due jobs a thread's run_pending has still to run
    tdf,                \* df of each thread's cycle: the rows fetched, -1 before the fetch returns
    stop_pc,            \* position of the stop_auto_sync call
    stop_res            \* "status" of the last Stop result, "none" once a later request has come

globals == <<scheduler_running, scheduler_thread, last_sync_time, sync_status>>
starts == <<spc, interval, res, wdf, warm>>
threads == <<thr, tq, tdf>>
stops == <<stop_pc, stop_res>>

vars == <<serialized, app, globals, schedule_jobs, starts, threads, stops>>

\* ---- bounds ------------------------------------------------------------
MaxStarts == 3
MaxConcurrent == 2
MaxRows == 1

\* ---- program constants -------------------------------------------------
MIN_SYNC_INTERVAL == 1
MAX_SYNC_INTERVAL == 1440

Ids == 1..MaxStarts
None == 0
NoTime == -1
Stamp == 0
Absent == -1
NoDf == -1

\* the intervals a request may carry: below, at and above the accepted range
Intervals == {MIN_SYNC_INTERVAL - 1, MIN_SYNC_INTERVAL, MAX_SYNC_INTERVAL + 1}

\* ---- sync_status values ------------------------------------------------
InitialStatus ==
    [status |-> "idle", last_run |-> NoTime, rows_synced |-> Absent, error |-> "none"]

NoResult ==
    [status |-> "unset", last_run |-> NoTime, rows_synced |-> Absent, error |-> "none"]

RunningStatus ==
    [status |-> "running", last_run |-> Stamp, rows_synced |-> Absent, error |-> "none"]

CompletedStatus(n) ==
    [status |-> "completed", last_run |-> Stamp, rows_synced |-> n, error |-> "none"]

FailedStatus(msg) ==
    [status |-> "failed", last_run |-> Stamp, rows_synced |-> Absent, error |-> msg]

\* the dicts the code assigns to sync_status, each built and bound in one statement
WholeStatuses ==
    {InitialStatus, RunningStatus}
        \cup {CompletedStatus(n) : n \in 0..MaxRows}
        \cup {FailedStatus(msg) : msg \in {"fetch", "write"}}

get_sync_status ==
    [scheduler |-> IF scheduler_running THEN "running" ELSE "idle", sync |-> sync_status]

\* api.py line 21-24: from app.services.scheduler import last_sync_time,
\* scheduler_running binds two names of api.py to the values the scheduler's
\* globals have at import; the scheduler rebinds its own globals, and no
\* statement of api.py assigns these names
api_scheduler_running == FALSE
api_last_sync_time == NoTime

\* GET /health
health_check ==
    [scheduler |-> IF api_scheduler_running THEN "running" ELSE "idle",
     last_sync |-> api_last_sync_time]

\* ---- threads -----------------------------------------------------------
is_alive(t) == t # None /\ thr[t] \notin {"unborn", "created", "dead"}

\* the thread is inside connect_to_gsheets or sync_to_db
InFlight(t) == thr[t] \in {"l59", "l60"}

InLoopBody(t) == thr[t] \in {"l101", "l56", "l59", "l60"}

\* join() with no timeout: it returns only when the thread has ended
JoinWaitsForEnd(t) == ~is_alive(t)

\* join(timeout=5) returns when the thread has ended, or after 5 seconds: the
\* thread outlives the wait only inside a fetch or write (they take any time)
\* or when the flag it polls every second is TRUE again.
JoinReturns(t) == ~is_alive(t) \/ InFlight(t) \/ scheduler_running

CallerAtRest(k) == spc[k] \in {"new", "done", "conflict", "invalid", "error"}

NoCallInProgress == stop_pc = "idle" /\ \A k \in Ids : CallerAtRest(k)

\* the lower bound of the interval left out of the request model
ValidIntervalNoFloor(i) == i <= MAX_SYNC_INTERVAL

\* interval_minutes: int = Field(5, ge=1, le=1440)
ValidInterval(i) == i >= MIN_SYNC_INTERVAL /\ i <= MAX_SYNC_INTERVAL

Init ==
    /\ serialized = FALSE
    /\ app = "up"
    /\ scheduler_running = FALSE
    /\ scheduler_thread = None
    /\ last_sync_time = NoTime
    /\ sync_status = InitialStatus
    /\ schedule_jobs = {}
    /\ spc = [k \in Ids |-> "new"]
    /\ interval = [k \in Ids |-> 0]
    /\ res = [k \in Ids |-> NoResult]
    /\ wdf = [k \in Ids |-> NoDf]
    /\ warm = [k \in Ids |-> "none"]
    /\ thr = [k \in Ids |-> "unborn"]
    /\ tq = [k \in Ids |-> {}]
    /\ tdf = [k \in Ids |-> NoDf]
    /\ stop_pc = "idle"
    /\ stop_res = "none"

\* ---- start_auto_sync -----------------------------------------------------
\* POST /start-auto-sync/: the AutoSyncRequest model accepts the interval, or
\* FastAPI rejects the request before start_auto_sync is called.
\* Start k is the k-th request to arrive; none arrives during a Stop, and
\* MaxConcurrent of them when calls overlap.
StartRequest(k, i) ==
    /\ app = "up"
    /\ spc[k] = "new"
    /\ \A j \in 1..(k - 1) : spc[j] # "new"
    /\ serialized \/ k <= MaxConcurrent
    /\ stop_pc = "idle"
    /\ serialized => NoCallInProgress
    /\ interval' = [interval EXCEPT ![k] = i]
    /\ spc' = [spc EXCEPT ![k] = IF ValidInterval(i) THEN "l47" ELSE "invalid"]
    /\ stop_res' = IF ValidInterval(i) THEN "none" ELSE stop_res
    /\ UNCHANGED <<serialized, app, globals, schedule_jobs, res, wdf, warm, threads, stop_pc>>

\* the conflict check left out: a Start on a running scheduler replaces the job
StartCheckNoConflict(k) ==
    /\ spc[k] = "l47"
    /\ spc' = [spc EXCEPT ![k] = "l87"]
    /\ UNCHANGED <<serialized, app, globals, schedule_jobs, interval, res, wdf, warm, threads, stops>>

\* line 47-49: if scheduler_running: raise SchedulerError
StartCheck(k) ==
    /\ spc[k] = "l47"
    /\ spc' = [spc EXCEPT ![k] = IF scheduler_running THEN "conflict" ELSE "l87"]
    /\ UNCHANGED <<serialized, app, globals, schedule_jobs, interval, res, wdf, warm, threads, stops>>

\* line 87: schedule.clear()
StartClear(k) ==
    /\ spc[k] = "l87"
    /\ schedule_jobs' = {}
    /\ spc' = [spc EXCEPT ![k] = "l88"]
    /\ UNCHANGED <<serialized, app, globals, interval, res, wdf, warm, threads, stops>>

\* line 88: schedule.every(interval_minutes).minutes.do(auto_sync_job)
StartRegister(k) ==
    /\ spc[k] = "l88"
    /\ schedule_jobs' = schedule_jobs \cup {k}
    /\ spc' = [spc EXCEPT ![k] = "l89"]
    /\ UNCHANGED <<serialized, app, globals, interval, res, wdf, warm, threads, stops>>

\* line 89: scheduler_running = True
StartSetRunning(k) ==
    /\ spc[k] = "l89"
    /\ scheduler_running' = TRUE
    /\ spc' = [spc EXCEPT ![k] = "l106"]
    /\ UNCHANGED <<serialized, app, scheduler_thread, last_sync_time, sync_status, schedule_jobs,
                   interval, res, wdf, warm, threads, stops>>

\* line 106: if scheduler_thread and scheduler_thread.is_alive()
StartCheckThread(k) ==
    /\ spc[k] = "l106"
    /\ spc' = [spc EXCEPT ![k] = IF is_alive(scheduler_thread) THEN "l107" ELSE "l111"]
    /\ UNCHANGED <<serialized, app, globals, schedule_jobs, interval, res, wdf, warm, threads, stops>>

\* line 107: scheduler_running = False
StartClearRunning(k) ==
    /\ spc[k] = "l107"
    /\ scheduler_running' = FALSE
    /\ spc' = [spc EXCEPT ![k] = "l108"]
    /\ UNCHANGED <<serialized, app, scheduler_thread, last_sync_time, sync_status, schedule_jobs,
                   interval, res, wdf, warm, threads, stops>>

\* line 108: scheduler_thread.join(timeout=5); joining a thread that was created
\* and not started raises RuntimeError, which line 123-129 turns into SchedulerError
StartJoin(k) ==
    /\ spc[k] = "l108"
    /\ IF thr[scheduler_thread] = "created"
       THEN spc' = [spc EXCEPT ![k] = "error"]
       ELSE /\ JoinReturns(scheduler_thread)
            /\ spc' = [spc EXCEPT ![k] = "l111"]
    /\ UNCHANGED <<serialized, app, globals, schedule_jobs, interval, res, wdf, warm, threads, stops>>

\* line 111: scheduler_thread = threading.Thread(target=run_scheduler, daemon=True)
StartCreateThread(k) ==
    /\ spc[k] = "l111"
    /\ scheduler_thread' = k
    /\ thr' = [thr EXCEPT ![k] = "created"]
    /\ spc' = [spc EXCEPT ![k] = "l112"]
    /\ UNCHANGED <<serialized, app, scheduler_running, last_sync_time, sync_status, schedule_jobs,
                   interval, res, wdf, warm, tq, tdf, stops>>

\* line 112: scheduler_thread.start(); a thread started twice raises
\* RuntimeError, which line 123-129 turns into SchedulerError
StartThread(k) ==
    /\ spc[k] = "l112"
    /\ IF thr[scheduler_thread] = "created"
       THEN /\ thr' = [thr EXCEPT ![scheduler_thread] = "l100"]
            /\ spc' = [spc EXCEPT ![k] = "l115"]
       ELSE /\ thr' = thr
            /\ spc' = [spc EXCEPT ![k] = "error"]
    /\ UNCHANGED <<serialized, app, globals, schedule_jobs, interval, res, wdf, warm, tq, tdf,
                   stops>>

\* ---- auto_sync_job, run by the caller of Start (line 115) -----------------
\* line 56: sync_status = {"status": "running", ...}
WarmupBegin(k) ==
    /\ spc[k] = "l115"
    /\ sync_status' = RunningStatus
    /\ spc' = [spc EXCEPT ![k] = "l59"]
    /\ UNCHANGED <<serialized, app, scheduler_running, scheduler_thread, last_sync_time,
                   schedule_jobs, interval, res, wdf, warm, threads, stops>>

\* a failed fetch that escapes the job: Start raises SchedulerError (line
\* 123-129) and the status stays as the job's first statement left it
WarmupFetchUnrecorded(k) ==
    /\ spc[k] = "l59"
    /\ \/ \E n \in 0..MaxRows :
            /\ wdf' = [wdf EXCEPT ![k] = n]
            /\ spc' = [spc EXCEPT ![k] = "l60"]
       \/ /\ spc' = [spc EXCEPT ![k] = "error"]
          /\ UNCHANGED wdf
    /\ UNCHANGED <<serialized, app, globals, schedule_jobs, interval, res, warm, threads,
                   stops>>

\* line 59, 69-84: connect_to_gsheets returns the table, or raises and the
\* handler writes the failed status with its message: sync_to_db is skipped
WarmupFetch(k) ==
    /\ spc[k] = "l59"
    /\ \/ \E n \in 0..MaxRows :
            /\ wdf' = [wdf EXCEPT ![k] = n]
            /\ spc' = [spc EXCEPT ![k] = "l60"]
            /\ UNCHANGED <<sync_status, warm>>
       \/ /\ sync_status' = FailedStatus("fetch")
          /\ warm' = [warm EXCEPT ![k] = "failed"]
          /\ spc' = [spc EXCEPT ![k] = "l120"]
          /\ UNCHANGED wdf
    /\ UNCHANGED <<serialized, app, scheduler_running, scheduler_thread, last_sync_time,
                   schedule_jobs, interval, res, threads, stops>>

\* line 60-84: sync_to_db(df) returns and the status is completed with
\* len(df), or it raises and the handler writes the failed status
WarmupWrite(k) ==
    /\ spc[k] = "l60"
    /\ \/ /\ last_sync_time' = Stamp
          /\ sync_status' = CompletedStatus(wdf[k])
          /\ warm' = [warm EXCEPT ![k] = "completed"]
       \/ /\ sync_status' = FailedStatus("write")
          /\ warm' = [warm EXCEPT ![k] = "failed"]
          /\ UNCHANGED last_sync_time
    /\ wdf' = [wdf EXCEPT ![k] = NoDf]
    /\ spc' = [spc EXCEPT ![k] = "l120"]
    /\ UNCHANGED <<serialized, app, scheduler_running, scheduler_thread, schedule_jobs, interval,
                   res, threads, stops>>

\* line 117-121: the result is built from the global sync_status
StartReadStatus(k) ==
    /\ spc[k] = "l120"
    /\ res' = [res EXCEPT ![k] = sync_status]
    /\ warm' = [warm EXCEPT ![k] = "none"]
    /\ spc' = [spc EXCEPT ![k] = "l121"]
    /\ UNCHANGED <<serialized, app, globals, schedule_jobs, interval, wdf, threads, stops>>

\* line 121: the call returns and the result, res[k], leaves with it
StartReturn(k) ==
    /\ spc[k] = "l121"
    /\ spc' = [spc EXCEPT ![k] = "done"]
    /\ res' = [res EXCEPT ![k] = NoResult]
    /\ UNCHANGED <<serialized, app, globals, schedule_jobs, interval, wdf, warm, threads, stops>>

\* ---- run_scheduler --------------------------------------------------------
\* the threads are daemon threads: they end with the process, so no thread
\* takes a step once the application is down
\* line 100: while scheduler_running
RunnerCheck(t) ==
    /\ app = "up"
    /\ thr[t] = "l100"
    /\ thr' = [thr EXCEPT ![t] = IF scheduler_running THEN "l101" ELSE "dead"]
    /\ UNCHANGED <<serialized, app, globals, schedule_jobs, starts, tq, tdf, stops>>

\* line 101-102: schedule.run_pending() collects the registered jobs whose
\* next_run has come, any of them as far as the code can tell; with none due
\* the thread sleeps a second and is back at line 100
RunnerPending(t) ==
    /\ app = "up"
    /\ thr[t] = "l101"
    /\ \E due \in SUBSET schedule_jobs :
          /\ tq' = [tq EXCEPT ![t] = due]
          /\ thr' = [thr EXCEPT ![t] = IF due = {} THEN "l100" ELSE "l56"]
    /\ UNCHANGED <<serialized, app, globals, schedule_jobs, starts, tdf, stops>>

\* a job that updates the status dict in place, one key at a time
RunnerBeginInPlace(t) ==
    /\ app = "up"
    /\ thr[t] = "l56"
    /\ \E j \in tq[t] : tq' = [tq EXCEPT ![t] = tq[t] \ {j}]
    /\ sync_status' = [sync_status EXCEPT !.status = "running"]
    /\ thr' = [thr EXCEPT ![t] = "l59"]
    /\ UNCHANGED <<serialized, app, scheduler_running, scheduler_thread, last_sync_time,
                   schedule_jobs, starts, tdf, stops>>

\* line 56, in the thread: the next of the due jobs starts
RunnerBegin(t) ==
    /\ app = "up"
    /\ thr[t] = "l56"
    /\ \E j \in tq[t] : tq' = [tq EXCEPT ![t] = tq[t] \ {j}]
    /\ sync_status' = RunningStatus
    /\ thr' = [thr EXCEPT ![t] = "l59"]
    /\ UNCHANGED <<serialized, app, scheduler_running, scheduler_thread, last_sync_time,
                   schedule_jobs, starts, tdf, stops>>

\* a failure that escapes the job instead of being caught at line 69-84: the
\* thread dies with the status left as it was
RunnerFetchEscapes(t) ==
    /\ app = "up"
    /\ thr[t] = "l59"
    /\ \/ \E n \in 0..MaxRows :
            /\ tdf' = [tdf EXCEPT ![t] = n]
            /\ thr' = [thr EXCEPT ![t] = "l60"]
            /\ UNCHANGED tq
       \/ /\ thr' = [thr EXCEPT ![t] = "dead"]
          /\ tq' = [tq EXCEPT ![t] = {}]
          /\ UNCHANGED tdf
    /\ UNCHANGED <<serialized, app, globals, schedule_jobs, starts, stops>>

\* a failed fetch that the job survives without returning: it goes on to the
\* write with no table
RunnerFetchGoesOn(t) ==
    /\ app = "up"
    /\ thr[t] = "l59"
    /\ \/ \E n \in 0..MaxRows : tdf' = [tdf EXCEPT ![t] = n]
       \/ UNCHANGED tdf
    /\ thr' = [thr EXCEPT ![t] = "l60"]
    /\ UNCHANGED <<serialized, app, globals, schedule_jobs, starts, tq, stops>>

\* a handler that marks the old dict failed instead of building a new one
RunnerFetchKeepsRows(t) ==
    /\ app = "up"
    /\ thr[t] = "l59"
    /\ \/ \E n \in 0..MaxRows :
            /\ tdf' = [tdf EXCEPT ![t] = n]
            /\ thr' = [thr EXCEPT ![t] = "l60"]
            /\ UNCHANGED sync_status
       \/ /\ sync_status' = [sync_status EXCEPT !.status = "failed", !.error = "fetch"]
          /\ thr' = [thr EXCEPT ![t] = IF tq[t] = {} THEN "l100" ELSE "l56"]
          /\ UNCHANGED tdf
    /\ UNCHANGED <<serialized, app, scheduler_running, scheduler_thread, last_sync_time,
                   schedule_jobs, starts, tq, stops>>

\* line 59, 69-84, in the thread: the table, or the failed status; after a
\* failure the job returns, and run_pending goes on with its next due job or
\* returns to the loop (line 102, then 100)
RunnerFetch(t) ==
    /\ app = "up"
    /\ thr[t] = "l59"
    /\ \/ \E n \in 0..MaxRows :
            /\ tdf' = [tdf EXCEPT ![t] = n]
            /\ thr' = [thr EXCEPT ![t] = "l60"]
            /\ UNCHANGED sync_status
       \/ /\ sync_status' = FailedStatus("fetch")
          /\ thr' = [thr EXCEPT ![t] = IF tq[t] = {} THEN "l100" ELSE "l56"]
          /\ UNCHANGED tdf
    /\ UNCHANGED <<serialized, app, scheduler_running, scheduler_thread, last_sync_time,
                   schedule_jobs, starts, tq, stops>>

\* a cycle that reports no rows whatever the table holds
RunnerWriteCountsNothing(t) ==
    /\ app = "up"
    /\ thr[t] = "l60"
    /\ \/ /\ last_sync_time' = Stamp
          /\ sync_status' = CompletedStatus(0)
       \/ /\ sync_status' = FailedStatus("write")
          /\ UNCHANGED last_sync_time
    /\ tdf' = [tdf EXCEPT ![t] = NoDf]
    /\ thr' = [thr EXCEPT ![t] = IF tq[t] = {} THEN "l100" ELSE "l56"]
    /\ UNCHANGED <<serialized, app, scheduler_running, scheduler_thread, schedule_jobs,
                   starts, tq, stops>>

\* line 60-84, in the thread: the write, then the completed or failed status
RunnerWrite(t) ==
    /\ app = "up"
    /\ thr[t] = "l60"
    /\ \/ /\ last_sync_time' = Stamp
          /\ sync_status' = CompletedStatus(tdf[t])
       \/ /\ sync_status' = FailedStatus("write")
          /\ UNCHANGED last_sync_time
    /\ tdf' = [tdf EXCEPT ![t] = NoDf]
    /\ thr' = [thr EXCEPT ![t] = IF tq[t] = {} THEN "l100" ELSE "l56"]
    /\ UNCHANGED <<serialized, app, scheduler_running, scheduler_thread, schedule_jobs,
                   starts, tq, stops>>

\* ---- stop_auto_sync -------------------------------------------------------
\* POST /stop-auto-sync/, called when no other call is in progress
StopRequest ==
    /\ app = "up"
    /\ stop_pc = "idle"
    /\ NoCallInProgress
    /\ stop_pc' = "l141"
    /\ stop_res' = "none"
    /\ UNCHANGED <<serialized, app, globals, schedule_jobs, starts, threads>>

\* the early return left out: Stop goes on to stop a scheduler that is not running
StopCheckNoReturn ==
    /\ stop_pc = "l141"
    /\ stop_pc' = "l145"
    /\ UNCHANGED <<serialized, app, globals, schedule_jobs, starts, threads, stop_res>>

\* line 141-142: if not scheduler_running: return the warning
StopCheck ==
    /\ stop_pc = "l141"
    /\ IF scheduler_running
       THEN stop_pc' = "l145" /\ UNCHANGED stop_res
       ELSE stop_pc' = "idle" /\ stop_res' = "warning"
    /\ UNCHANGED <<serialized, app, globals, schedule_jobs, starts, threads>>

\* line 145: schedule.clear()
StopClear ==
    /\ stop_pc = "l145"
    /\ schedule_jobs' = {}
    /\ stop_pc' = "l146"
    /\ UNCHANGED <<serialized, app, globals, starts, threads, stop_res>>

\* line 146: scheduler_running = False
StopClearRunning ==
    /\ stop_pc = "l146"
    /\ scheduler_running' = FALSE
    /\ stop_pc' = "l149"
    /\ UNCHANGED <<serialized, app, scheduler_thread, last_sync_time, sync_status, schedule_jobs,
                   starts, threads, stop_res>>

\* line 149: if scheduler_thread and scheduler_thread.is_alive()
StopCheckThread ==
    /\ stop_pc = "l149"
    /\ stop_pc' = IF is_alive(scheduler_thread) THEN "l150" ELSE "l153"
    /\ UNCHANGED <<serialized, app, globals, schedule_jobs, starts, threads, stop_res>>

\* line 150: scheduler_thread.join(timeout=5); RuntimeError on a thread not yet
\* started is caught at line 154-157 and returned as status "error"
StopJoin ==
    /\ stop_pc = "l150"
    /\ IF thr[scheduler_thread] = "created"
       THEN stop_pc' = "idle" /\ stop_res' = "error"
       ELSE JoinReturns(scheduler_thread) /\ stop_pc' = "l153" /\ UNCHANGED stop_res
    /\ UNCHANGED <<serialized, app, globals, schedule_jobs, starts, threads>>

\* a Stop that resets the status as it returns
StopReturnResets ==
    /\ stop_pc = "l153"
    /\ stop_pc' = "idle"
    /\ stop_res' = "success"
    /\ sync_status' = InitialStatus
    /\ UNCHANGED <<serialized, app, scheduler_running, scheduler_thread, last_sync_time,
                   schedule_jobs, starts, threads>>

\* line 153: return {"status": "success", ...}
StopReturn ==
    /\ stop_pc = "l153"
    /\ stop_pc' = "idle"
    /\ stop_res' = "success"
    /\ UNCHANGED <<serialized, app, globals, schedule_jobs, starts, threads>>

\* api.py line 84-89, shutdown_event: if scheduler_running: stop_auto_sync(),
\* with the name api.py imported; the server calls it once the requests in
\* progress have been answered, and the process ends after it
Shutdown ==
    /\ app = "up"
    /\ NoCallInProgress
    /\ app' = "down"
    /\ IF api_scheduler_running /\ scheduler_running
       THEN /\ schedule_jobs' = {}
            /\ scheduler_running' = FALSE
       ELSE UNCHANGED <<schedule_jobs, scheduler_running>>
    /\ UNCHANGED <<serialized, scheduler_thread, last_sync_time, sync_status,
                   starts, threads, stops>>

Next ==
    \/ \E k \in Ids, i \in Intervals : StartRequest(k, i)
    \/ \E k \in Ids : StartCheck(k)
    \/ \E k \in Ids : StartClear(k)
    \/ \E k \in Ids : StartRegister(k)
    \/ \E k \in Ids : StartSetRunning(k)
    \/ \E k \in Ids : StartCheckThread(k)
    \/ \E k \in Ids : StartClearRunning(k)
    \/ \E k \in Ids : StartJoin(k)
    \/ \E k \in Ids : StartCreateThread(k)
    \/ \E k \in Ids : StartThread(k)
    \/ \E k \in Ids : WarmupBegin(k)
    \/ \E k \in Ids : WarmupFetch(k)
    \/ \E k \in Ids : WarmupWrite(k)
    \/ \E k \in Ids : StartReadStatus(k)
    \/ \E k \in Ids : StartReturn(k)
    \/ \E t \in Ids : RunnerCheck(t)
    \/ \E t \in Ids : RunnerPending(t)
    \/ \E t \in Ids : RunnerBegin(t)
    \/ \E t \in Ids : RunnerFetch(t)
    \/ \E t \in Ids : RunnerWrite(t)
    \/ StopRequest
    \/ StopCheck
    \/ StopClear
    \/ StopClearRunning
    \/ StopCheckThread
    \/ StopJoin
    \/ StopReturn
    \/ Shutdown

\* start_auto_sync called from threads of their own: Start calls overlap each
\* other and the run_scheduler threads; a Stop is called between them
Spec == Init /\ [][Next]_vars

\* callers as api.py wires them: async endpoints that call the scheduler
\* without awaiting, so one request runs to its return before the next begins
InitLoop ==
    /\ serialized = TRUE
    /\ app = "up"
    /\ scheduler_running = FALSE
    /\ scheduler_thread = None
    /\ last_sync_time = NoTime
    /\ sync_status = InitialStatus
    /\ schedule_jobs = {}
    /\ spc = [k \in Ids |-> "new"]
    /\ interval = [k \in Ids |-> 0]
    /\ res = [k \in Ids |-> NoResult]
    /\ wdf = [k \in Ids |-> NoDf]
    /\ warm = [k \in Ids |-> "none"]
    /\ thr = [k \in Ids |-> "unborn"]
    /\ tq = [k \in Ids |-> {}]
    /\ tdf = [k \in Ids |-> NoDf]
    /\ stop_pc = "idle"
    /\ stop_res = "none"

SpecLoop == InitLoop /\ [][Next]_vars

\* SpecLoop with the steps that always come to pass: a Stop call that can take
\* its next step takes it, and a thread reads the flag, returns from
\* run_pending and sleep, and enters a due job.  A fetch or a write may never
\* return, and no request has to arrive.
SpecLoopFair ==
    /\ SpecLoop
    /\ WF_vars(StopCheck)
    /\ WF_vars(StopClear)
    /\ WF_vars(StopClearRunning)
    /\ WF_vars(StopCheckThread)
    /\ WF_vars(StopJoin)
    /\ WF_vars(StopReturn)
    /\ \A t \in Ids : WF_vars(RunnerCheck(t))
    /\ \A t \in Ids : WF_vars(RunnerPending(t))
    /\ \A t \in Ids : WF_vars(RunnerBegin(t))

\* ---- properties -------------------------------------------------------------
\* a Start call between its conflict check (line 47) and raising the flag (line 89)
InTransition(k) == spc[k] \in {"l87", "l88", "l89"}

RunnerAlive(t) == is_alive(t)

\* a Stop has returned success and no Start or Stop was requested since
QuietNow == stop_pc = "idle" /\ stop_res = "success"

\* C1: of the Start calls issued while the scheduler is idle at most one makes
\* the transition to active: no two calls are past the conflict check at the
\* same time, each on its way to register a job and spawn a thread of its own.
SingleFlight ==
    \A j, k \in Ids : (j # k) => ~(InTransition(j) /\ InTransition(k))

\* C2: once Stop has returned success, sync_status is not written again until
\* the next Start is requested.
PostStopSilence ==
    [][QuietNow => sync_status' = sync_status]_vars

\* C3: at most one run_scheduler thread is inside its loop at any time.
AtMostOneRunner ==
    Cardinality({t \in Ids : InLoopBody(t)}) <= 1

\* C4: with no Start or Stop call in progress, scheduler_running is TRUE
\* exactly when a run_scheduler thread is alive.
ActiveIffRunnerAlive ==
    NoCallInProgress => (scheduler_running <=> \E t \in Ids : RunnerAlive(t))

\* C5: a Start call that finds the scheduler running ends in the conflict
\* error and changes none of the flag, the thread reference, last_sync_time,
\* sync_status, the registered jobs and the threads.
StartWhileActiveChangesNothing ==
    [][\A k \in Ids :
          (spc[k] = "l47" /\ scheduler_running /\ spc'[k] # spc[k])
              => /\ spc'[k] = "conflict"
                 /\ UNCHANGED <<globals, schedule_jobs, threads, interval, res>>]_vars

StartConflictReached ==
    \E k \in Ids : spc[k] = "conflict" /\ scheduler_running /\ schedule_jobs # {}

\* C6: a Stop call that finds the scheduler not running returns the warning
\* and changes none of the flag, the thread reference, last_sync_time,
\* sync_status, the registered jobs and the threads - every time it is called.
StopWhileIdleChangesNothing ==
    [][(stop_pc = "l141" /\ ~scheduler_running /\ stop_pc' # stop_pc)
          => /\ stop_pc' = "idle"
             /\ stop_res' = "warning"
             /\ UNCHANGED <<globals, schedule_jobs, threads, starts>>]_vars

\* a Stop has returned the warning after an earlier Start and Stop
StopWarningReached ==
    /\ stop_pc = "idle"
    /\ stop_res = "warning"
    /\ scheduler_thread # None

\* C7: when a Start call returns, the first_sync it returns is the sync_status
\* a Status call made at that moment returns.
WarmupVisibility ==
    [][\A k \in Ids :
          (spc[k] = "l121" /\ spc'[k] = "done") => res[k] = get_sync_status'.sync]_vars

\* C8: when a Start call returns success, Status reports the scheduler running
\* and a run_scheduler thread is alive.
StartSuccessMeansActive ==
    [][\A k \in Ids :
          (spc[k] = "l121" /\ spc'[k] = "done")
              => /\ get_sync_status'.scheduler = "running"
                 /\ \E t \in Ids : thr'[t] \in {"l100", "l101", "l56", "l59", "l60"}]_vars

\* C9: a Start request with interval 0 or an interval above the maximum is
\* answered with the validation error; it registers no job, starts no thread,
\* runs no cycle and leaves the flag and all the scheduler state as they were.
BoundsEnforcement ==
    /\ [](\A k \in Ids :
            (spc[k] # "new" /\ (interval[k] = 0 \/ interval[k] > MAX_SYNC_INTERVAL))
                => /\ spc[k] = "invalid"
                   /\ k \notin schedule_jobs
                   /\ thr[k] = "unborn")
    /\ [][\A k \in Ids :
            (spc[k] = "new" /\ spc'[k] = "invalid")
                => UNCHANGED <<globals, schedule_jobs, threads, res, stops>>]_vars

\* both kinds of rejected request have happened
BothBoundsRejected ==
    /\ \E k \in Ids : spc[k] = "invalid" /\ interval[k] = 0
    /\ \E k \in Ids : spc[k] = "invalid" /\ interval[k] > MAX_SYNC_INTERVAL

\* C10: a cycle of a run_scheduler thread that does not end completed ends
\* with status failed and an error message; it leaves the thread in its loop,
\* its remaining due jobs to run, the flag and the registered jobs as they
\* were: the thread ends only by reading scheduler_running FALSE at line 100.
FailureIsolation ==
    [][\A t \in Ids :
          /\ (thr[t] \in {"l59", "l60"} /\ thr'[t] \notin {"l59", "l60"}
                /\ sync_status'.status # "completed")
                => /\ sync_status'.status = "failed"
                   /\ sync_status'.error # "none"
                   /\ thr'[t] = (IF tq[t] = {} THEN "l100" ELSE "l56")
                   /\ UNCHANGED <<scheduler_running, scheduler_thread, schedule_jobs, tq>>
          /\ (thr'[t] = "dead" /\ thr[t] # "dead")
                => (thr[t] = "l100" /\ ~scheduler_running)]_vars

\* the only Start has returned and a cycle has completed since the process
\* began, so the failed status is that of a later cycle of the thread, which is
\* in its loop again, about to look for due jobs
NextCycleAfterFailure ==
    /\ spc[1] = "done"
    /\ \A k \in Ids \ {1} : spc[k] = "new"
    /\ last_sync_time = Stamp
    /\ sync_status.status = "failed"
    /\ scheduler_running
    /\ thr[1] = "l101"

\* C11: a warm-up that fails does not fail Start: the failing step leaves the
\* call on its way to the success result and the flag, the thread reference,
\* the registered jobs and the threads as a successful warm-up leaves them,
\* and the first_sync the call then builds has status failed and an error.
FailedWarmupStillStarts ==
    [][\A k \in Ids :
          /\ (spc[k] \in {"l59", "l60"} /\ warm'[k] = "failed")
                => /\ spc'[k] = "l120"
                   /\ UNCHANGED <<scheduler_running, scheduler_thread, schedule_jobs, threads>>
          /\ (spc[k] = "l120" /\ warm[k] = "failed" /\ spc'[k] = "l121")
                => /\ res'[k].status = "failed"
                   /\ res'[k].error # "none"]_vars

\* C12: a Stop whose wait for the thread has ended with the thread still
\* alive does not return success, and leaves the flag FALSE.
StopTimeoutSurfaced ==
    [][(stop_pc = "l153" /\ stop_pc' = "idle" /\ is_alive(scheduler_thread))
          => /\ stop_res' # "success"
             /\ ~scheduler_running']_vars

\* no cycle is executing or collected to execute
NoCycleInProgress ==
    /\ \A t \in Ids : thr[t] \notin {"l56", "l59", "l60"}
    /\ \A k \in Ids : spc[k] \notin {"l115", "l59", "l60"}

\* C13: no step of Stop writes sync_status or last_sync_time; once Stop has
\* returned success Status reports the scheduler idle, and with no cycle in
\* progress the sync snapshot stays as it is until a later Start.
StopKeepsSyncStatus ==
    /\ [](QuietNow => get_sync_status.scheduler = "idle")
    /\ [][(stop_pc' # stop_pc) => UNCHANGED <<sync_status, last_sync_time>>]_vars
    /\ [][(QuietNow /\ NoCycleInProgress)
             => get_sync_status'.sync = get_sync_status.sync]_vars

\* Stop has returned success after a completed cycle, and every thread has ended
StoppedAfterCompleted ==
    /\ QuietNow
    /\ sync_status.status = "completed"
    /\ scheduler_thread # None
    /\ \A t \in Ids : ~is_alive(t)

\* C14: a cycle begins by writing status running with no error; its fetch
\* either hands a table to the write and leaves the status alone, or ends the
\* cycle failed with the fetch's message; its write ends the cycle completed
\* with rows_synced the length of the fetched table and no error, or failed
\* with the write's message.  Both for a thread's cycle and for a warm-up.
CycleOutcome ==
    [][/\ \A t \in Ids :
            /\ (thr[t] = "l56" /\ thr'[t] = "l59")
                  => (sync_status'.status = "running" /\ sync_status'.error = "none")
            /\ (thr[t] = "l59" /\ thr'[t] # "l59")
                  => \/ /\ thr'[t] = "l60"
                        /\ tdf'[t] \in 0..MaxRows
                        /\ sync_status' = sync_status
                     \/ /\ thr'[t] # "l60"
                        /\ sync_status'.status = "failed"
                        /\ sync_status'.error = "fetch"
            /\ (thr[t] = "l60" /\ thr'[t] # "l60")
                  => \/ /\ sync_status'.status = "completed"
                        /\ sync_status'.rows_synced = tdf[t]
                        /\ sync_status'.error = "none"
                     \/ /\ sync_status'.status = "failed"
                        /\ sync_status'.error = "write"
       /\ \A k \in Ids :
            /\ (spc[k] = "l115" /\ spc'[k] = "l59")
                  => (sync_status'.status = "running" /\ sync_status'.error = "none")
            /\ (spc[k] = "l59" /\ spc'[k] # "l59")
                  => \/ /\ spc'[k] = "l60"
                        /\ wdf'[k] \in 0..MaxRows
                        /\ sync_status' = sync_status
                     \/ /\ spc'[k] # "l60"
                        /\ sync_status'.status = "failed"
                        /\ sync_status'.error = "fetch"
            /\ (spc[k] = "l60" /\ spc'[k] # "l60")
                  => \/ /\ sync_status'.status = "completed"
                        /\ sync_status'.rows_synced = wdf[k]
                        /\ sync_status'.error = "none"
                     \/ /\ sync_status'.status = "failed"
                        /\ sync_status'.error = "write"]_vars

\* a Start has built its result from the status of a failed write, and a
\* thread's cycle has since ended completed with the most rows a table holds
FullTableSynced ==
    /\ sync_status = CompletedStatus(MaxRows)
    /\ \E k \in Ids : spc[k] = "l121" /\ res[k] = FailedStatus("write")
    /\ \E t \in Ids : thr[t] = "l100"

\* C15: sync_to_db is called only after connect_to_gsheets has returned a
\* table in the same cycle: a cycle is in the write only with a table, it
\* enters the write from the fetch, and a fetch that returns no table ends
\* the cycle.
FetchBeforeWrite ==
    /\ [](/\ \A t \in Ids : thr[t] = "l60" => tdf[t] \in 0..MaxRows
          /\ \A k \in Ids : spc[k] = "l60" => wdf[k] \in 0..MaxRows)
    /\ [][/\ \A t \in Ids :
                /\ (thr'[t] = "l60" /\ thr[t] # "l60") => thr[t] = "l59"
                /\ (thr[t] = "l59" /\ thr'[t] # "l59" /\ tdf'[t] = NoDf) => thr'[t] # "l60"
           /\ \A k \in Ids :
                /\ (spc'[k] = "l60" /\ spc[k] # "l60") => spc[k] = "l59"
                /\ (spc[k] = "l59" /\ spc'[k] # "l59" /\ wdf'[k] = NoDf) => spc'[k] # "l60"]_vars

\* the last cycle ended in its fetch: the status is the fetch's failure, the
\* Start has returned, the thread is in its loop with no table, and no write
\* has ever succeeded
FetchFailedNoWrite ==
    /\ sync_status = FailedStatus("fetch")
    /\ last_sync_time = NoTime
    /\ \E t \in Ids : thr[t] = "l100" /\ tdf[t] = NoDf
    /\ \E k \in Ids : spc[k] = "done"
    /\ scheduler_running

\* a Start call is executing its warm-up cycle
InWarmup(k) == spc[k] \in {"l59", "l60"}

\* C16: while a Start call executes its warm-up the scheduler is not yet
\* active and no run_scheduler thread is alive.
WarmupBeforeRunner ==
    \A k \in Ids :
        InWarmup(k) => (~scheduler_running /\ \A t \in Ids : ~is_alive(t))

\* C17: the first_sync a Start builds is the last status its own warm-up
\* wrote: its status is completed or failed, and is the one the warm-up
\* ended with.
FirstSyncIsOwnWarmup ==
    [][\A k \in Ids :
          (spc[k] = "l120" /\ spc'[k] = "l121")
              => /\ res'[k].status \in {"completed", "failed"}
                 /\ res'[k].status = warm[k]]_vars

\* SpecLoopFair with every fetch and write returning and every Start call
\* going on to its end: only the requests need not arrive.
SpecLoopFairAll ==
    /\ SpecLoopFair
    /\ \A t \in Ids : WF_vars(RunnerFetch(t))
    /\ \A t \in Ids : WF_vars(RunnerWrite(t))
    /\ \A k \in Ids : WF_vars(StartCheck(k) \/ StartClear(k) \/ StartRegister(k)
                               \/ StartSetRunning(k) \/ StartCheckThread(k)
                               \/ StartClearRunning(k) \/ StartJoin(k)
                               \/ StartCreateThread(k) \/ StartThread(k)
                               \/ WarmupBegin(k) \/ WarmupFetch(k) \/ WarmupWrite(k)
                               \/ StartReadStatus(k) \/ StartReturn(k))

\* C18: every Stop call returns, even when the cycle the thread is in never
\* ends.
StopAlwaysReturns ==
    (stop_pc # "idle") ~> (stop_pc = "idle")

\* Stop has returned although the thread is still inside a fetch or a write
StopReturnedDuringCycle ==
    /\ stop_pc = "idle"
    /\ stop_res = "success"
    /\ \E t \in Ids : InFlight(t)

\* C19: the sync snapshot Status returns is always the initial status or one
\* status a cycle wrote as a whole, never a mix of two writes.
NoTornStatus ==
    get_sync_status.sync \in WholeStatuses

\* Status is called while a thread's cycle is between its writes, after an
\* earlier cycle has completed
StatusReadDuringCycle ==
    /\ get_sync_status.sync = RunningStatus
    /\ last_sync_time = Stamp
    /\ \E t \in Ids : thr[t] = "l60"

\* the cycles executing: threads and Start calls past line 56 of a job
CyclesInFlight ==
    Cardinality({t \in Ids : InFlight(t)}) + Cardinality({k \in Ids : InWarmup(k)})

\* C20: at most one cycle is executing at any time, a warm-up or a thread's.
OneCycleAtATime ==
    CyclesInFlight <= 1

\* C21: every run_scheduler thread alive when a Stop finds the scheduler
\* running ends, by leaving its loop or with the process, whatever calls
\* follow, when every fetch and write returns.
CancellationObserved ==
    \A t \in Ids : (stop_pc = "l145" /\ is_alive(t)) ~> (thr[t] = "dead" \/ app = "down")

\* C22: the scheduler field of /health is the scheduler field of Status, and
\* its last_sync is the time of the last completed cycle.
HealthReflectsScheduler ==
    /\ health_check.scheduler = get_sync_status.scheduler
    /\ health_check.last_sync = last_sync_time

\* C23: once shutdown_event has run the scheduler is not running.
ShutdownStopsScheduler ==
    app = "down" => ~scheduler_running

\* C24: sync_status carries rows_synced exactly when its status is completed
\* and an error exactly when its status is failed.
RowsAndErrorMatchStatus ==
    /\ (sync_status.rows_synced # Absent) <=> (sync_status.status = "completed")
    /\ (sync_status.error # "none") <=> (sync_status.status = "failed")

\* a cycle has failed in its write after an earlier cycle completed
FailedAfterCompleted ==
    /\ sync_status = FailedStatus("write")
    /\ last_sync_time = Stamp
    /\ \E t \in Ids : thr[t] = "l100"

\* C25: with no cycle executing the status is not running; it is idle only
\* while no Start has come to its warm-up and nothing has completed, and no
\* step takes the status back to idle.
StatusSettlesBetweenCycles ==
    /\ [](CyclesInFlight = 0 => sync_status.status \in {"idle", "completed", "failed"})
    /\ [](sync_status.status = "idle"
             => /\ last_sync_time = NoTime
                /\ \A k \in Ids : spc[k] \notin {"l59", "l60", "l120", "l121", "done"})
    /\ [][sync_status'.status = "idle" => sync_status.status = "idle"]_vars

\* the thread waits for its next tick after a completed cycle and a Stop that
\* found nothing to stop
SettledAfterCycle ==
    /\ CyclesInFlight = 0
    /\ sync_status.status = "completed"
    /\ stop_res = "warning"
    /\ \E k \in Ids : spc[k] = "done"

====
